---- MODULE Spec2Model ----
(***************************************************************************)
(* SpriteFileSystemProvider (src/src/spriteFileSystem.ts): a filesystem    *)
(* adapter whose every operation is synthesised from shell commands run on *)
(* a remote session.  The source holds two variants of the class: the one  *)
(* that retries a failed exec (execWithRetry, lines 8-274) and the one     *)
(* that coerces a failed exec into a result and waits for the client       *)
(* (safeExec / waitForClient, lines 283-638).  The variable `variant`      *)
(* says which of the two a behaviour runs.                                 *)
(*                                                                         *)
(* Every public operation is an async function.  One action of the model   *)
(* is one run of JavaScript between two suspension points (await); the     *)
(* remote host running a command is an action of its own (RemoteExec).     *)
(***************************************************************************)
EXTENDS Integers, Sequences, FiniteSets, TLC

\* ------------------------------------------------------------ bounds
\* Concurrent callers of the provider (independent async tasks).
NumTasks == 2
\* Public operations started in one behaviour.
MaxCalls == 2
\* Registries installed (setClient calls) in one behaviour.
MaxInstalls == 2

Tasks == 1..NumTasks

\* ------------------------------------------------------------ text
\* Text (stdout, stderr, a path) is a sequence of tokens; "\n" and " " are
\* the whitespace tokens.
WS == {"\n", " "}

RECURSIVE TrimLeft(_)
TrimLeft(t) ==
    IF t # <<>> /\ Head(t) \in WS THEN TrimLeft(Tail(t)) ELSE t

RECURSIVE TrimRight(_)
TrimRight(t) ==
    IF t # <<>> /\ t[Len(t)] \in WS THEN TrimRight(SubSeq(t, 1, Len(t) - 1)) ELSE t

\* String.prototype.trim
Trim(t) == TrimRight(TrimLeft(t))

\* stdout.replace(/\s/g, '')
RECURSIVE StripWS(_)
StripWS(t) ==
    IF t = <<>> THEN <<>>
    ELSE IF Head(t) \in WS THEN StripWS(Tail(t))
    ELSE <<Head(t)>> \o StripWS(Tail(t))

\* String.prototype.includes, for one token
Includes(t, tok) == \E i \in 1..Len(t) : t[i] = tok

\* String.prototype.lastIndexOf for a one-token needle, 0-based, -1 if absent
LastIndexOf(t, tok) ==
    IF Includes(t, tok)
    THEN (CHOOSE i \in 1..Len(t) : t[i] = tok /\ \A j \in (i+1)..Len(t) : t[j] # tok) - 1
    ELSE -1

\* String.prototype.substring(0, n)
Substring0(t, n) == SubSeq(t, 1, n)

\* ------------------------------------------------------------ base64
B64Alphabet ==
    << "A","B","C","D","E","F","G","H","I","J","K","L","M","N","O","P",
       "Q","R","S","T","U","V","W","X","Y","Z","a","b","c","d","e","f",
       "g","h","i","j","k","l","m","n","o","p","q","r","s","t","u","v",
       "w","x","y","z","0","1","2","3","4","5","6","7","8","9","+","/" >>

B64Char(n) == B64Alphabet[n + 1]

B64Val(c) == (CHOOSE i \in 1..64 : B64Alphabet[i] = c) - 1

IsB64Char(c) == \E i \in 1..64 : B64Alphabet[i] = c

\* Buffer.from(content).toString('base64')
RECURSIVE B64Encode(_)
B64Encode(b) ==
    IF Len(b) = 0 THEN <<>>
    ELSE IF Len(b) = 1 THEN
        << B64Char(b[1] \div 4), B64Char((b[1] % 4) * 16), "=", "=" >>
    ELSE IF Len(b) = 2 THEN
        << B64Char(b[1] \div 4),
           B64Char((b[1] % 4) * 16 + b[2] \div 16),
           B64Char((b[2] % 16) * 4), "=" >>
    ELSE
        << B64Char(b[1] \div 4),
           B64Char((b[1] % 4) * 16 + b[2] \div 16),
           B64Char((b[2] % 16) * 4 + b[3] \div 64),
           B64Char(b[3] % 64) >> \o B64Encode(SubSeq(b, 4, Len(b)))

\* Whether atob / base64 -d accepts the text (whitespace already removed).
RECURSIVE B64Valid(_)
B64Valid(t) ==
    IF Len(t) = 0 THEN TRUE
    ELSE IF Len(t) < 4 THEN FALSE
    ELSE /\ IsB64Char(t[1]) /\ IsB64Char(t[2])
         /\ IF Len(t) = 4
            THEN \/ t[3] = "=" /\ t[4] = "="
                 \/ IsB64Char(t[3]) /\ (t[4] = "=" \/ IsB64Char(t[4]))
            ELSE IsB64Char(t[3]) /\ IsB64Char(t[4]) /\ B64Valid(SubSeq(t, 5, Len(t)))

\* atob(base64Content) followed by charCodeAt, and the remote `base64 -d`
RECURSIVE B64Decode(_)
B64Decode(t) ==
    IF Len(t) = 0 THEN <<>>
    ELSE LET v1 == B64Val(t[1])
             v2 == B64Val(t[2])
         IN  IF t[3] = "=" THEN << v1 * 4 + v2 \div 16 >>
             ELSE LET v3 == B64Val(t[3])
                  IN  IF t[4] = "="
                      THEN << v1 * 4 + v2 \div 16, (v2 % 16) * 16 + v3 \div 4 >>
                      ELSE << v1 * 4 + v2 \div 16,
                              (v2 % 16) * 16 + v3 \div 4,
                              (v3 % 4) * 64 + B64Val(t[4]) >>
                           \o B64Decode(SubSeq(t, 5, Len(t)))

\* ------------------------------------------------------------ addresses
\* Session names (uri.authority) and paths (uri.path), a path being the
\* sequence of its characters.
Sessions == {"s1", "s2"}

Root == <<"/">>
PathA == <<"/", "a">>
PathD == <<"/", "d">>
PathDA == <<"/", "d", "/", "a">>

\* The paths of a remote tree below its root.
Paths == {PathA, PathD, PathDA}

\* The same, in the order `ls` prints them.
PathOrder == <<PathA, PathD, PathDA>>

\* Byte payloads handed to writeFile (the initial trees hold files of one and
\* of three bytes).
Payloads == {<<>>, <<10, 250>>}

\* parseUri: { spriteName: uri.authority, path: uri.path || '/' }
parseUri(uri) ==
    [spriteName |-> uri[1], path |-> IF uri[2] = <<>> THEN Root ELSE uri[2]]

\* The addresses the callers use.  Session s2 is addressed at its root only
\* (with an empty path, which parseUri defaults), so its tree never changes.
Uris == ({"s1"} \X Paths) \cup {<<"s2", <<>>>>}

\* ------------------------------------------------------------ remote tree
Absent == [k |-> "absent", data |-> <<>>]
Dir == [k |-> "dir", data |-> <<>>]
File(b) == [k |-> "file", data |-> b]

EmptyTree == [p \in Paths |-> Absent]

Kind(tree, p) ==
    IF p = Root THEN "dir" ELSE IF p \in Paths THEN tree[p].k ELSE "absent"

\* dirname, which is also writeFile's parentDir:
\* path.substring(0, path.lastIndexOf('/')) || '/'
DirName(p) ==
    LET d == Substring0(p, LastIndexOf(p, "/"))
    IN  IF d = <<>> THEN Root ELSE d

BaseName(p) == SubSeq(p, LastIndexOf(p, "/") + 2, Len(p))

Join(dir, name) == IF dir = Root THEN Root \o name ELSE dir \o <<"/">> \o name

\* q lies strictly below directory p
IsUnder(q, p) ==
    IF p = Root THEN q # Root
    ELSE Len(q) > Len(p) /\ SubSeq(q, 1, Len(p)) = p /\ q[Len(p) + 1] = "/"

\* A tree the remote host can hold: an entry has a directory above it.
WellFormed(tree) ==
    \A p \in Paths : tree[p].k # "absent" => Kind(tree, DirName(p)) = "dir"

\* The trees a session starts with.
InitTrees ==
    { EmptyTree,
      [EmptyTree EXCEPT ![PathA] = File(<<255>>), ![PathD] = Dir],
      [EmptyTree EXCEPT ![PathD] = Dir, ![PathDA] = File(<<>>)],
      [EmptyTree EXCEPT ![PathD] = File(<<77, 0, 110>>)] }

\* ------------------------------------------------------------ remote shell
\* What a command does on the tree of its session: the tree after it, what
\* it prints and its exit status.
Out(tree, stdout, stderr, exit) ==
    [tree |-> tree, stdout |-> stdout, stderr |-> stderr, exit |-> exit]

NumTok == <<"0", "1", "2", "3">>

\* stat -c '%F|%s|%Y|%X'
StatLine(tree, p) ==
    LET n == IF p = Root THEN Dir ELSE tree[p]
        f == IF n.k = "dir" THEN <<"directory">>
             ELSE IF n.data = <<>> THEN <<"regular", " ", "empty", " ", "file">>
             ELSE <<"regular", " ", "file">>
        s == IF n.k = "dir" THEN "4096" ELSE NumTok[Len(n.data) + 1]
    IN  f \o <<"|", s, "|", "1700000", "|", "1700100", "\n">>

\* ls -1Ap: one name per line, "/" after a directory
RECURSIVE LsLines(_, _, _)
LsLines(tree, p, i) ==
    IF i > Len(PathOrder) THEN <<>>
    ELSE LET q == PathOrder[i]
         IN  (IF DirName(q) = p /\ tree[q].k # "absent"
              THEN BaseName(q) \o (IF tree[q].k = "dir" THEN <<"/">> ELSE <<>>) \o <<"\n">>
              ELSE <<>>) \o LsLines(tree, p, i + 1)

\* if [ -e p ]; then stat ...; else echo NOTFOUND; fi      (line 392)
\* `vanished`: the path is removed between the test and the stat, and stat
\* fails without printing to stdout.
RunStatSafe(tree, p, vanished) ==
    IF Kind(tree, p) # "absent" THEN Out(tree, StatLine(tree, p), <<>>, 0)
    ELSE IF vanished THEN Out(tree, <<>>, <<"stat:", " ", "cannot">>, 1)
    ELSE Out(tree, <<"NOTFOUND", "\n">>, <<>>, 0)

\* stat ... 2>/dev/null || echo "NOTFOUND"                  (line 69)
RunStatRetry(tree, p) ==
    IF Kind(tree, p) # "absent" THEN Out(tree, StatLine(tree, p), <<>>, 0)
    ELSE Out(tree, <<"NOTFOUND", "\n">>, <<>>, 0)

\* ls -1Ap p 2>/dev/null [|| true]                          (lines 105, 440)
RunLs(tree, p, orTrue) ==
    CASE Kind(tree, p) = "dir" -> Out(tree, LsLines(tree, p, 1), <<>>, 0)
      [] Kind(tree, p) = "file" -> Out(tree, p \o <<"\n">>, <<>>, 0)
      [] OTHER -> Out(tree, <<>>, <<>>, IF orTrue THEN 0 ELSE 2)

\* test -f p && echo EXISTS [|| echo NOTFOUND]              (lines 154, 495)
RunTestF(tree, p, orElse) ==
    IF Kind(tree, p) = "file" THEN Out(tree, <<"EXISTS", "\n">>, <<>>, 0)
    ELSE IF orElse THEN Out(tree, <<"NOTFOUND", "\n">>, <<>>, 0)
    ELSE Out(tree, <<>>, <<>>, 1)

\* test -e p && echo EXISTS [|| echo NOTEXISTS]             (lines 181, 254, 533, 618)
RunTestE(tree, p, orElse) ==
    IF Kind(tree, p) # "absent" THEN Out(tree, <<"EXISTS", "\n">>, <<>>, 0)
    ELSE IF orElse THEN Out(tree, <<"NOTEXISTS", "\n">>, <<>>, 0)
    ELSE Out(tree, <<>>, <<>>, 1)

\* base64 p [2>/dev/null]                                   (lines 150, 501)
RunBase64(tree, p, quiet) ==
    IF Kind(tree, p) = "file"
    THEN Out(tree,
             IF tree[p].data = <<>> THEN <<>> ELSE B64Encode(tree[p].data) \o <<"\n">>,
             <<>>, 0)
    ELSE Out(tree, <<>>, IF quiet THEN <<>> ELSE <<"base64:", " ", "cannot">>, 1)

\* mkdir -p p                                               (lines 192, 215, 544, 571)
RECURSIVE RunMkdirP(_, _)
RunMkdirP(tree, p) ==
    CASE Kind(tree, p) = "dir" -> Out(tree, <<>>, <<>>, 0)
      [] Kind(tree, p) = "file" -> Out(tree, <<>>, <<"mkdir:", " ", "exists">>, 1)
      [] OTHER ->
            LET up == RunMkdirP(tree, DirName(p))
            IN  IF up.exit # 0 THEN up
                ELSE Out([up.tree EXCEPT ![p] = Dir], <<>>, <<>>, 0)

\* The write command under `set -o noclobber`: an existing file is kept.
RunWriteNoClobber(tree, p, b64) ==
    IF Kind(tree, p) # "absent" \/ Kind(tree, DirName(p)) # "dir"
    THEN Out(tree, <<>>, <<"sh:", " ", "cannot", " ", "create">>, 1)
    ELSE Out([tree EXCEPT ![p] = File(B64Decode(StripWS(b64 \o <<"\n">>)))], <<>>, <<>>, 0)

\* echo "<base64>" | base64 -d > p                          (lines 195, 547)
RunWrite(tree, p, b64) ==
    IF Kind(tree, p) = "dir" \/ Kind(tree, DirName(p)) # "dir"
    THEN Out(tree, <<>>, <<"sh:", " ", "cannot", " ", "create">>, 1)
    ELSE Out([tree EXCEPT ![p] = File(B64Decode(StripWS(b64 \o <<"\n">>)))], <<>>, <<>>, 0)

\* rm without -f: a missing path is an error.
RunRmNoForce(tree, p, recursive) ==
    CASE Kind(tree, p) = "absent" ->
            Out(tree, <<>>, <<"rm:", " ", "cannot", " ", "remove">>, 1)
      [] Kind(tree, p) = "file" -> Out([tree EXCEPT ![p] = Absent], <<>>, <<>>, 0)
      [] OTHER ->
            IF ~recursive \/ p = Root
            THEN Out(tree, <<>>, <<"rm:", " ", "cannot", " ", "remove">>, 1)
            ELSE Out([q \in Paths |-> IF q = p \/ IsUnder(q, p) THEN Absent ELSE tree[q]],
                     <<>>, <<>>, 0)

\* rm -f p / rm -rf p                                       (lines 233, 593)
RunRm(tree, p, recursive) ==
    CASE Kind(tree, p) = "absent" -> Out(tree, <<>>, <<>>, 0)
      [] Kind(tree, p) = "file" -> Out([tree EXCEPT ![p] = Absent], <<>>, <<>>, 0)
      [] OTHER ->
            IF ~recursive \/ p = Root
            THEN Out(tree, <<>>, <<"rm:", " ", "cannot", " ", "remove">>, 1)
            ELSE Out([q \in Paths |-> IF q = p \/ IsUnder(q, p) THEN Absent ELSE tree[q]],
                     <<>>, <<>>, 0)

\* mv old new                                               (lines 260, 624)
\* A destination that is a directory receives the source under its own name.
RunMv(tree, old, new) ==
    LET target == IF Kind(tree, new) = "dir" THEN Join(new, BaseName(old)) ELSE new
        refuse == Out(tree, <<>>, <<"mv:", " ", "cannot", " ", "move">>, 1)
    IN  IF \/ Kind(tree, old) = "absent"
           \/ old = Root
           \/ target = old
           \/ target \notin Paths
           \/ IsUnder(target, old)
           \/ Kind(tree, DirName(target)) # "dir"
           \/ Kind(tree, target) = "dir" /\ Kind(tree, old) # "dir"
           \/ Kind(tree, target) = "file" /\ Kind(tree, old) = "dir"
        THEN refuse
        ELSE Out([q \in Paths |->
                    IF q = target THEN tree[old]
                    ELSE IF q = old \/ IsUnder(q, old) \/ IsUnder(q, target) THEN Absent
                    ELSE tree[q]],
                 <<>>, <<>>, 0)

\* ------------------------------------------------------------ state
VARIABLES
    ext,                 \* extension.ts: its module-level state and its runs
    variant,             \* "retry" (lines 8-274) or "safe" (lines 283-638)
    client,              \* this.client: 0 is null, n > 0 the n-th registry installed
    spriteCache,         \* this.spriteCache: session name -> handle
    clientReadyResolve,  \* this.clientReadyResolve is not null
    readyResolved,       \* this.clientReadyPromise has been resolved
    fs,                  \* the tree of every remote session
    task,                \* the async call each caller has in flight
    nCalls,              \* public operations started so far
    nWriteFired,         \* _emitter.fire calls made by writeFile so far
    nWriteOk,            \* writeFile calls that returned normally so far
    wrote                \* the last call was a writeFile with create:true that
                         \* returned normally: its uri and content

vars == <<ext, variant, client, spriteCache, clientReadyResolve, readyResolved, fs, task,
          nCalls, nWriteFired, nWriteOk, wrote>>

\* A session handle: client.sprite(name) of registry `reg`.  NoHandle is
\* null / a cache miss.
NoHandle == [name |-> "", reg |-> 0]
Mint(name) == [name |-> name, reg |-> client]

NoCmd == [kind |-> "none", p |-> <<>>, p2 |-> <<>>, data |-> <<>>, flag |-> FALSE]
Cmd(kind, p, p2, data, flag) ==
    [kind |-> kind, p |-> p, p2 |-> p2, data |-> data, flag |-> flag]

\* What sprite.exec settles with: "ok" resolves with {stdout, stderr};
\* "exit" rejects with an error that carries the fields in `has`;
\* "transport" rejects with an error that carries none.
NoReply == [tag |-> "none", has |-> {}, stdout |-> <<>>, stderr |-> <<>>, exitCode |-> 0]

NoRes == [tag |-> "none", val |-> <<>>]

Idle ==
    [pc |-> "idle", op |-> "none", uri |-> <<"", <<>>>>, uri2 |-> <<"", <<>>>>,
     content |-> <<>>, create |-> FALSE, overwrite |-> FALSE, recursive |-> FALSE,
     sprite |-> NoHandle, exists |-> FALSE, at |-> "none", cmd |-> NoCmd, i |-> 0,
     reply |-> NoReply, log |-> <<>>, fired |-> <<>>, res |-> NoRes,
     waited |-> "no"]

\* execWithRetry's `retries = 2`
Retries == 2

NoWrite == [uri |-> <<"", <<>>>>, content |-> <<>>, ok |-> FALSE]

\* ------------------------------------------------------------ extension.ts
\* The runs of the activation code: run 1 is the startup token restore
\* (lines 313-329), the others are runs of the sprite.setToken command
\* (lines 25-52).  The registry a run builds, new SpritesClient(token), is
\* named by the run; 0 is null / undefined.
MaxCommands == 2

Runs == 1..(MaxCommands + 1)

Restore == 1

\* lines 3-5 (SpritesClient, globalClient, spriteFs as declared), the
\* provider instances created so far, the secret storage, the provider
\* registered for the scheme 'sprite', the number of calls of
\* registerFileSystemProvider, and where each run stands.
ExtInit ==
    [SpritesClient |-> FALSE, globalClient |-> 0, spriteFs |-> 0,
     insts |-> <<>>, secret |-> 0, registered |-> 0, regCalls |-> 0,
     pc |-> [r \in Runs |-> "idle"], end |-> [r \in Runs |-> "none"]]

Init ==
    /\ ext = ExtInit
    /\ variant \in {"retry", "safe"}
    /\ client = 0
    /\ spriteCache = [n \in Sessions |-> NoHandle]
    /\ clientReadyResolve = (variant = "safe")
    /\ readyResolved = FALSE
    /\ fs \in [Sessions -> InitTrees]
    /\ fs["s2"] = EmptyTree
    /\ task = [t \in Tasks |-> Idle]
    /\ nCalls = 0
    /\ nWriteFired = 0
    /\ nWriteOk = 0
    /\ wrote = NoWrite

\* ------------------------------------------------------------ registry
\* setClient that keeps the cache of the registry it replaces.
SetClientKeepCache ==
    /\ client < MaxInstalls
    /\ client' = client + 1
    /\ IF clientReadyResolve
       THEN readyResolved' = TRUE /\ clientReadyResolve' = FALSE
       ELSE UNCHANGED <<readyResolved, clientReadyResolve>>
    /\ UNCHANGED <<ext, variant, spriteCache, fs, task, nCalls, nWriteFired, nWriteOk, wrote>>

\* setClient whose later installations close the gate again.
SetClientRecloses ==
    /\ client < MaxInstalls
    /\ client' = client + 1
    /\ spriteCache' = [n \in Sessions |-> NoHandle]
    /\ IF clientReadyResolve
       THEN readyResolved' = TRUE /\ clientReadyResolve' = FALSE
       ELSE readyResolved' = FALSE /\ clientReadyResolve' = (variant = "safe")
    /\ UNCHANGED <<ext, variant, fs, task, nCalls, nWriteFired, nWriteOk, wrote>>

\* setClient(client): lines 15-18 and 299-307
SetClient ==
    /\ client < MaxInstalls
    /\ client' = client + 1
    /\ spriteCache' = [n \in Sessions |-> NoHandle]
    /\ IF clientReadyResolve
       THEN readyResolved' = TRUE /\ clientReadyResolve' = FALSE
       ELSE UNCHANGED <<readyResolved, clientReadyResolve>>
    /\ UNCHANGED <<ext, variant, fs, task, nCalls, nWriteFired, nWriteOk, wrote>>

\* getSprite(spriteName): the handle it returns (NoHandle when there is no
\* client) and the cache it leaves.
getSprite(name) ==
    IF client = 0 THEN NoHandle
    ELSE IF spriteCache[name] # NoHandle THEN spriteCache[name]
    ELSE Mint(name)

\* getSprite that does not store the handle it minted.
getSpriteCacheNoStore(name) == spriteCache

getSpriteCache(name) ==
    IF client = 0 THEN spriteCache
    ELSE [spriteCache EXCEPT ![name] = getSprite(name)]

\* ------------------------------------------------------------ exec layer
\* The call returns / throws to the caller of the async function.
Return(r, tag, val) ==
    [r EXCEPT !.pc = "done", !.res = [tag |-> tag, val |-> val],
              !.cmd = NoCmd, !.reply = NoReply, !.at = "none"]

Throw(r, tag) == Return(r, tag, <<>>)

\* await this.execWithRetry(sprite, command) / await this.safeExec(sprite,
\* command): sprite.exec is called and the task waits at `at`.
Exec(r, cmd, at) ==
    [r EXCEPT !.pc = "exec", !.cmd = cmd, !.at = at, !.i = 0, !.reply = NoReply]

\* The remote shell runs the command on its session's tree.
Run(cmd, tree, vanished) ==
    CASE cmd.kind = "stat_safe" -> RunStatSafe(tree, cmd.p, vanished)
      [] cmd.kind = "stat_retry" -> RunStatRetry(tree, cmd.p)
      [] cmd.kind = "ls" -> RunLs(tree, cmd.p, cmd.flag)
      [] cmd.kind = "test_f" -> RunTestF(tree, cmd.p, cmd.flag)
      [] cmd.kind = "test_e" -> RunTestE(tree, cmd.p, cmd.flag)
      [] cmd.kind = "base64" -> RunBase64(tree, cmd.p, cmd.flag)
      [] cmd.kind = "mkdir_p" -> RunMkdirP(tree, cmd.p)
      [] cmd.kind = "write" -> RunWrite(tree, cmd.p, cmd.data)
      [] cmd.kind = "rm" -> RunRm(tree, cmd.p, cmd.flag)
      [] cmd.kind = "mv" -> RunMv(tree, cmd.p, cmd.p2)

\* The command log of a call holds one entry per command: the command, how
\* its last attempt ended and what its path held when it ran.
Logged(r, out, tree) ==
    LET e == [kind |-> r.cmd.kind, p |-> r.cmd.p, out |-> out,
              node |-> IF r.cmd.p \in Paths THEN tree[r.cmd.p] ELSE Dir]
    IN  IF r.i = 0 THEN Append(r.log, e) ELSE [r.log EXCEPT ![Len(r.log)] = e]

\* sprite.exec(command) completes on the remote host: the command runs and
\* the promise settles (resolved on exit 0, rejected with the captured
\* output otherwise).
RemoteExec(t) ==
    LET r == task[t]
        s == r.sprite.name
    IN  /\ r.pc = "exec"
        /\ r.reply = NoReply
        /\ \E vanished \in BOOLEAN :
             LET o == Run(r.cmd, fs[s], vanished)
                 tag == IF o.exit = 0 THEN "ok" ELSE "exit"
             IN  /\ vanished => r.cmd.kind = "stat_safe" /\ Kind(fs[s], r.cmd.p) = "absent"
                 /\ fs' = [fs EXCEPT ![s] = o.tree]
                 /\ task' = [task EXCEPT ![t] =
                       [r EXCEPT !.reply = [tag |-> tag,
                                            has |-> IF tag = "ok" THEN {"stdout", "stderr"}
                                                    ELSE {"stdout", "stderr", "exitCode"},
                                            stdout |-> o.stdout, stderr |-> o.stderr,
                                            exitCode |-> o.exit],
                                 !.log = Logged(r, tag, fs[s])]]
        /\ UNCHANGED <<ext, variant, client, spriteCache, clientReadyResolve, readyResolved,
                       nCalls, nWriteFired, nWriteOk, wrote>>

\* sprite.exec(command) fails at transport level: the command does not run
\* and the rejection carries no output.
TransportFail(t) ==
    LET r == task[t]
    IN  /\ r.pc = "exec"
        /\ r.reply = NoReply
        /\ task' = [task EXCEPT ![t] =
              [r EXCEPT !.reply = [NoReply EXCEPT !.tag = "transport"],
                        !.log = Logged(r, "transport", fs[r.sprite.name])]]
        /\ UNCHANGED <<ext, variant, client, spriteCache, clientReadyResolve, readyResolved,
                       fs, nCalls, nWriteFired, nWriteOk, wrote>>

\* execWithRetry whose loop runs once more than `retries` allows.
RetryAfterDelayOnceMore(t) ==
    LET r == task[t]
    IN  /\ variant = "retry"
        /\ r.pc = "exec"
        /\ r.reply.tag \in {"exit", "transport"}
        /\ r.i < Retries + 1
        /\ task' = [task EXCEPT ![t] = [r EXCEPT !.i = @ + 1, !.reply = NoReply]]
        /\ UNCHANGED <<ext, variant, client, spriteCache, clientReadyResolve, readyResolved,
                       fs, nCalls, nWriteFired, nWriteOk, wrote>>

\* execWithRetry, lines 48-55: a rejected attempt with i < retries waits
\* 500 ms and the loop calls sprite.exec again.
RetryAfterDelay(t) ==
    LET r == task[t]
    IN  /\ variant = "retry"
        /\ r.pc = "exec"
        /\ r.reply.tag \in {"exit", "transport"}
        /\ r.i < Retries
        /\ task' = [task EXCEPT ![t] = [r EXCEPT !.i = @ + 1, !.reply = NoReply]]
        /\ UNCHANGED <<ext, variant, client, spriteCache, clientReadyResolve, readyResolved,
                       fs, nCalls, nWriteFired, nWriteOk, wrote>>

\* execWithRetry(sprite, command), lines 39-58: what it returns once its
\* loop is over, or that it throws lastError.
execWithRetry(r) ==
    IF r.reply.tag = "ok"
    THEN [threw |-> FALSE, stdout |-> r.reply.stdout, stderr |-> r.reply.stderr,
          exitCode |-> 0]
    ELSE [threw |-> TRUE, stdout |-> <<>>, stderr |-> <<>>, exitCode |-> 0]

\* safeExec(sprite, command), lines 342-365
safeExec(r) ==
    IF r.reply.tag = "ok"
    THEN [threw |-> FALSE, stdout |-> r.reply.stdout, stderr |-> r.reply.stderr,
          exitCode |-> 0]
    ELSE IF "stdout" \in r.reply.has \/ "stderr" \in r.reply.has
    THEN [threw |-> FALSE,
          stdout |-> IF "stdout" \in r.reply.has THEN r.reply.stdout ELSE <<>>,
          stderr |-> IF "stderr" \in r.reply.has THEN r.reply.stderr ELSE <<>>,
          exitCode |-> IF "exitCode" \in r.reply.has /\ r.reply.exitCode # 0
                       THEN r.reply.exitCode ELSE 1]
    ELSE [threw |-> TRUE, stdout |-> <<>>, stderr |-> <<>>, exitCode |-> 0]

\* The awaited exec wrapper of the variant has settled for task t at `at`.
Settled(t, at) ==
    /\ task[t].pc = "exec"
    /\ task[t].at = at
    /\ task[t].reply # NoReply
    /\ variant = "retry" => task[t].reply.tag = "ok" \/ task[t].i >= Retries

\* What the awaited wrapper gives the operation.
Awaited(r) == IF variant = "retry" THEN execWithRetry(r) ELSE safeExec(r)

\* ------------------------------------------------------------ parsing
\* String.prototype.split for a one-token separator
RECURSIVE Split(_, _)
Split(t, sep) ==
    IF ~Includes(t, sep) THEN <<t>>
    ELSE LET i == CHOOSE k \in 1..Len(t) : t[k] = sep /\ \A j \in 1..(k-1) : t[j] # sep
         IN  <<SubSeq(t, 1, i - 1)>> \o Split(SubSeq(t, i + 1, Len(t)), sep)

\* String.prototype.includes for a needle of several tokens
IncludesSeq(t, sub) ==
    \E i \in 1..(Len(t) - Len(sub) + 1) : SubSeq(t, i, i + Len(sub) - 1) = sub

\* Date.now(), as a mark
Now == -1

\* parseInt(field, 10): the number, or -1 for NaN (also for a missing field)
parseInt(fields, k) ==
    IF k > Len(fields) \/ Len(fields[k]) # 1 THEN -1
    ELSE CASE fields[k][1] = "0" -> 0
           [] fields[k][1] = "1" -> 1
           [] fields[k][1] = "2" -> 2
           [] fields[k][1] = "3" -> 3
           [] fields[k][1] = "4096" -> 4096
           [] fields[k][1] = "1700000" -> 1700000
           [] fields[k][1] = "1700100" -> 1700100
           [] OTHER -> -1

\* lines 401-415: the FileStat parsed from the output of stat
ParseStat(output) ==
    LET fields == Split(output, "|")
        typeStr == fields[1]
        sz == parseInt(fields, 2)
        mt == parseInt(fields, 3)
        ct == parseInt(fields, 4)
    IN  [type |-> IF Includes(typeStr, "directory") THEN "Directory"
                  ELSE IF Includes(typeStr, "regular") \/ Includes(typeStr, "file") THEN "File"
                  ELSE IF IncludesSeq(typeStr, <<"symbolic", " ", "link">>) THEN "SymbolicLink"
                  ELSE "Unknown",
         ctime |-> IF ct <= 0 THEN Now ELSE ct * 1000,
         mtime |-> IF mt <= 0 THEN Now ELSE mt * 1000,
         size |-> IF sz < 0 THEN 0 ELSE sz]

\* The listing loop with a marker test that runs until no marker is left.
RECURSIVE EntryOfStripsEveryMarker(_)
EntryOfStripsEveryMarker(line) ==
    LET last == line[Len(line)]
        cut == SubSeq(line, 1, Len(line) - 1)
    IN  IF last \in {"/", "@", "*", "|", "="} /\ cut # <<>>
             /\ cut[Len(cut)] \in {"/", "@", "*", "|", "="}
        THEN EntryOfStripsEveryMarker(cut)
        ELSE IF last = "/" THEN <<cut, "Directory">>
        ELSE IF last = "@" THEN <<cut, "SymbolicLink">>
        ELSE IF last \in {"*", "|", "="} THEN <<cut, "File">>
        ELSE <<line, "File">>

\* lines 451-466: name and type of one line of the listing
EntryOf(line) ==
    LET last == line[Len(line)]
        cut == SubSeq(line, 1, Len(line) - 1)
    IN  IF last = "/" THEN <<cut, "Directory">>
        ELSE IF last = "@" THEN <<cut, "SymbolicLink">>
        ELSE IF last = "*" THEN <<cut, "File">>
        ELSE IF last = "|" \/ last = "=" THEN <<cut, "File">>
        ELSE <<line, "File">>

\* lines 447-473: the entries of the lines of a listing
RECURSIVE ParseEntries(_)
ParseEntries(lines) ==
    IF lines = <<>> THEN <<>>
    ELSE LET line == Head(lines)
             rest == ParseEntries(Tail(lines))
         IN  IF line = <<>> THEN rest
             ELSE LET e == EntryOf(line)
                  IN  IF e[1] # <<>> /\ e[1] # <<".">> /\ e[1] # <<".", ".">>
                      THEN <<e>> \o rest
                      ELSE rest

\* ------------------------------------------------------------ calls
\* A caller starts a public operation: the record of the call.
Call(op, uri) == [Idle EXCEPT !.op = op, !.uri = uri]

\* A call is taken by the first caller that is free.
CanCall(t) ==
    /\ task[t].pc = "idle"
    /\ \A u \in Tasks : u < t => task[u].pc # "idle"
    /\ nCalls < MaxCalls

Frame == UNCHANGED <<ext, variant, client, clientReadyResolve, readyResolved, fs>>

\* The first command of stat, readDirectory and readFile.
FirstCmd(op, path) ==
    CASE op = "stat" ->
            Cmd(IF variant = "safe" THEN "stat_safe" ELSE "stat_retry", path, <<>>, <<>>, FALSE)
      [] op = "readDirectory" -> Cmd("ls", path, <<>>, <<>>, variant = "safe")
      [] op = "readFile" ->
            IF variant = "safe" THEN Cmd("test_f", path, <<>>, <<>>, TRUE)
            ELSE Cmd("base64", path, <<>>, <<>>, TRUE)

FirstAt(op) ==
    CASE op = "stat" -> "stat"
      [] op = "readDirectory" -> "ls"
      [] op = "readFile" -> IF variant = "safe" THEN "rf_check" ELSE "rf_read"

\* stat / readDirectory / readFile from getSprite on: lines 66, 102, 147
\* (no client: getSprite throws Unavailable) and lines 380-386, 433-437,
\* 487-491 (no client: getSprite returns null and the call throws
\* FileNotFound).
Acquire(r) ==
    LET sprite == getSprite(parseUri(r.uri).spriteName)
    IN  IF sprite = NoHandle
        THEN Throw(r, IF variant = "safe" THEN "FileNotFound" ELSE "Unavailable")
        ELSE Exec([r EXCEPT !.sprite = sprite],
                  FirstCmd(r.op, parseUri(r.uri).path), FirstAt(r.op))

\* The three operations without the wait for the client.
ReadCallNoWait(t, op, uri) ==
    /\ CanCall(t)
    /\ nCalls' = nCalls + 1
    /\ task' = [task EXCEPT ![t] = Acquire(Call(op, uri))]
    /\ spriteCache' = getSpriteCache(parseUri(uri).spriteName)
    /\ Frame
    /\ wrote' = IF op = "readFile" /\ wrote.ok /\ wrote.uri = uri THEN wrote ELSE NoWrite
    /\ UNCHANGED <<nWriteFired, nWriteOk>>

\* stat, readDirectory, readFile up to their first await: lines 64-69,
\* 100-105, 145-150 and 371-391, 426-440, 480-495.  The safe variant awaits
\* waitForClient() when there is no client yet.
ReadCall(t, op, uri) ==
    /\ CanCall(t)
    /\ nCalls' = nCalls + 1
    /\ IF variant = "safe" /\ client = 0
       THEN /\ task' = [task EXCEPT ![t] = [Call(op, uri) EXCEPT !.pc = "waitForClient"]]
            /\ UNCHANGED spriteCache
       ELSE /\ task' = [task EXCEPT ![t] = Acquire(Call(op, uri))]
            /\ spriteCache' = getSpriteCache(parseUri(uri).spriteName)
    /\ Frame
    /\ wrote' = IF op = "readFile" /\ wrote.ok /\ wrote.uri = uri THEN wrote ELSE NoWrite
    /\ UNCHANGED <<nWriteFired, nWriteOk>>

StatCall(t) == \E uri \in Uris : ReadCall(t, "stat", uri)

ReadDirectoryCall(t) == \E uri \in Uris : ReadCall(t, "readDirectory", uri)

ReadFileCall(t) == \E uri \in Uris : ReadCall(t, "readFile", uri)

\* waitForClient, lines 310-320: the race is won by clientReadyPromise,
\* which setClient resolved, and the operation goes on to getSprite.
WaitResume(t) ==
    /\ task[t].pc = "waitForClient"
    /\ readyResolved
    /\ task' = [task EXCEPT ![t] = Acquire([task[t] EXCEPT !.waited = "ready"])]
    /\ spriteCache' = getSpriteCache(parseUri(task[t].uri).spriteName)
    /\ Frame
    /\ UNCHANGED <<nCalls, nWriteFired, nWriteOk, wrote>>

\* waitForClient that awaits clientReadyPromise alone, without the timer.
WaitTimeoutAwaitsReady(t) ==
    /\ task[t].pc = "waitForClient"
    /\ readyResolved
    /\ task' = [task EXCEPT ![t] = Acquire([task[t] EXCEPT !.waited = "timeout"])]
    /\ spriteCache' = getSpriteCache(parseUri(task[t].uri).spriteName)
    /\ Frame
    /\ UNCHANGED <<nCalls, nWriteFired, nWriteOk, wrote>>

\* waitForClient, lines 314-316: the race is won by the timeout (5000 ms)
\* while the promise is unresolved, and the operation goes on to getSprite.
WaitTimeout(t) ==
    /\ task[t].pc = "waitForClient"
    /\ ~readyResolved
    /\ task' = [task EXCEPT ![t] = Acquire([task[t] EXCEPT !.waited = "timeout"])]
    /\ spriteCache' = getSpriteCache(parseUri(task[t].uri).spriteName)
    /\ Frame
    /\ UNCHANGED <<nCalls, nWriteFired, nWriteOk, wrote>>

\* The steps below leave everything but the task alone.
Step(t, r) ==
    /\ task' = [task EXCEPT ![t] = r]
    /\ UNCHANGED <<ext, variant, client, spriteCache, clientReadyResolve, readyResolved,
                   fs, nCalls, nWriteFired, nWriteOk, wrote>>

\* stat that takes only the sentinel for a missing path.
StatParsedSentinelOnly(r) ==
    LET x == Awaited(r)
        output == Trim(x.stdout)
    IN  IF x.threw THEN Throw(r, "Unavailable")
        ELSE IF output = <<"NOTFOUND">> THEN Throw(r, "FileNotFound")
        ELSE Return(r, "ok", ParseStat(output))

\* stat after its command: lines 70-97 and 395-423
StatParsed(r) ==
    LET x == Awaited(r)
        output == Trim(x.stdout)
    IN  IF x.threw THEN Throw(r, "Unavailable")
        ELSE IF output = <<"NOTFOUND">> \/ output = <<>> THEN Throw(r, "FileNotFound")
        ELSE Return(r, "ok", ParseStat(output))

StatDone(t) == Settled(t, "stat") /\ Step(t, StatParsed(task[t]))

\* readDirectory that takes an empty listing for a missing directory.
ListingParsedEmptyIsMissing(r) ==
    LET x == Awaited(r)
        output == Trim(x.stdout)
    IN  IF x.threw THEN Throw(r, "Unavailable")
        ELSE IF output = <<>> THEN Throw(r, "FileNotFound")
        ELSE Return(r, "ok", ParseEntries(Split(output, "\n")))

\* readDirectory after its command: lines 106-142 and 441-477
ListingParsed(r) ==
    LET x == Awaited(r)
        output == Trim(x.stdout)
    IN  IF x.threw THEN Throw(r, "Unavailable")
        ELSE IF output = <<>> THEN Return(r, "ok", <<>>)
        ELSE Return(r, "ok", ParseEntries(Split(output, "\n")))

ReadDirectoryDone(t) == Settled(t, "ls") /\ Step(t, ListingParsed(task[t]))

\* The bytes of the base64 text: lines 161-166 and 509-514.  atob throws on
\* text that is not base64, and the catch reports Unavailable.
Decoded(r, base64Content) ==
    IF B64Valid(base64Content) THEN Return(r, "ok", B64Decode(base64Content))
    ELSE Throw(r, "Unavailable")

\* readFile after `test -f`: lines 495-501 (safe), lines 155-158 (retry)
FileChecked(r) ==
    LET x == Awaited(r)
        found == Trim(x.stdout) = <<"EXISTS">>
    IN  IF x.threw THEN Throw(r, "Unavailable")
        ELSE IF variant = "safe"
        THEN IF ~found THEN Throw(r, "FileNotFound")
             ELSE Exec(r, Cmd("base64", parseUri(r.uri).path, <<>>, <<>>, FALSE), "rf_read")
        ELSE IF found THEN Return(r, "ok", <<>>) ELSE Throw(r, "FileNotFound")

ReadFileChecked(t) == Settled(t, "rf_check") /\ Step(t, FileChecked(task[t]))

\* readFile after `base64`: lines 502-514 (safe), lines 151-166 (retry)
FileRead(r) ==
    LET x == Awaited(r)
        base64Content == StripWS(x.stdout)
    IN  IF x.threw THEN Throw(r, "Unavailable")
        ELSE IF base64Content = <<>>
        THEN IF variant = "safe" THEN Return(r, "ok", <<>>)
             ELSE Exec(r, Cmd("test_f", parseUri(r.uri).path, <<>>, <<>>, FALSE), "rf_check")
        ELSE Decoded(r, base64Content)

ReadFileRead(t) == Settled(t, "rf_read") /\ Step(t, FileRead(task[t]))

\* ------------------------------------------------------------ mutations
\* writeFile, createDirectory, delete and rename from getSprite to their
\* first await.  Without a client getSprite throws Unavailable (line 22) or
\* returns null and the operation throws Unavailable (lines 528-530,
\* 566-568, 587-589, 612-614).
Begin(r, name, cmd, at) ==
    LET sprite == getSprite(name)
    IN  IF sprite = NoHandle THEN Throw(r, "Unavailable")
        ELSE Exec([r EXCEPT !.sprite = sprite], cmd, at)

MutCall(t, r, name) ==
    /\ CanCall(t)
    /\ nCalls' = nCalls + 1
    /\ task' = [task EXCEPT ![t] = r]
    /\ spriteCache' = getSpriteCache(name)
    /\ Frame
    /\ wrote' = NoWrite
    /\ UNCHANGED <<nWriteFired, nWriteOk>>

\* _emitter.fire(events)
Fire(r, events) == [r EXCEPT !.fired = Append(@, events)]

Event(type, uri) == [type |-> type, uri |-> uri]

\* writeFile up to the existence check: lines 176-181 and 524-533
WriteFileStart(uri, content, create, overwrite) ==
    Begin([Call("writeFile", uri) EXCEPT
               !.content = content, !.create = create, !.overwrite = overwrite],
          parseUri(uri).spriteName,
          Cmd("test_e", parseUri(uri).path, <<>>, <<>>, TRUE), "wf_exists")

WriteFileCall(t) ==
    \E uri \in Uris, content \in Payloads, create \in BOOLEAN, overwrite \in BOOLEAN :
        MutCall(t, WriteFileStart(uri, content, create, overwrite), parseUri(uri).spriteName)

\* writeFile whose create:false is overridden by overwrite:true.
WriteFileCheckedOverwriteCreates(r) ==
    LET x == Awaited(r)
        exists == Trim(x.stdout) = <<"EXISTS">>
    IN  IF x.threw THEN Throw(r, "Unavailable")
        ELSE IF exists /\ ~r.overwrite THEN Throw([r EXCEPT !.exists = exists], "FileExists")
        ELSE IF ~exists /\ ~r.create /\ ~r.overwrite
        THEN Throw([r EXCEPT !.exists = exists], "FileNotFound")
        ELSE Exec([r EXCEPT !.exists = exists],
                  Cmd("mkdir_p", DirName(parseUri(r.uri).path), <<>>, <<>>, FALSE), "wf_mkdir")

\* writeFile whose overwrite:false is overridden by create:true.
WriteFileCheckedCreateOverwrites(r) ==
    LET x == Awaited(r)
        exists == Trim(x.stdout) = <<"EXISTS">>
    IN  IF x.threw THEN Throw(r, "Unavailable")
        ELSE IF exists /\ ~r.overwrite /\ ~r.create
        THEN Throw([r EXCEPT !.exists = exists], "FileExists")
        ELSE IF ~exists /\ ~r.create THEN Throw([r EXCEPT !.exists = exists], "FileNotFound")
        ELSE Exec([r EXCEPT !.exists = exists],
                  Cmd("mkdir_p", DirName(parseUri(r.uri).path), <<>>, <<>>, FALSE), "wf_mkdir")

\* writeFile whose catch wraps the errors classified inside its try.
WriteFileCheckedRewrapped(r) ==
    LET x == Awaited(r)
        exists == Trim(x.stdout) = <<"EXISTS">>
    IN  IF x.threw THEN Throw(r, "Unavailable")
        ELSE IF (exists /\ ~r.overwrite) \/ (~exists /\ ~r.create) THEN Throw(r, "Unavailable")
        ELSE Exec([r EXCEPT !.exists = exists],
                  Cmd("mkdir_p", DirName(parseUri(r.uri).path), <<>>, <<>>, FALSE), "wf_mkdir")

\* writeFile that announces the change before it applies the policy.
WriteFileCheckedFiresFirst(r) ==
    LET x == Awaited(r)
        exists == Trim(x.stdout) = <<"EXISTS">>
        f == Fire(r, <<Event(IF exists THEN "Changed" ELSE "Created", r.uri)>>)
    IN  IF x.threw THEN Throw(r, "Unavailable")
        ELSE IF exists /\ ~r.overwrite THEN Throw([f EXCEPT !.exists = exists], "FileExists")
        ELSE IF ~exists /\ ~r.create THEN Throw([f EXCEPT !.exists = exists], "FileNotFound")
        ELSE Exec([r EXCEPT !.exists = exists],
                  Cmd("mkdir_p", DirName(parseUri(r.uri).path), <<>>, <<>>, FALSE), "wf_mkdir")

\* writeFile after the existence check: lines 182-192 and 534-544
WriteFileChecked(r) ==
    LET x == Awaited(r)
        exists == Trim(x.stdout) = <<"EXISTS">>
    IN  IF x.threw THEN Throw(r, "Unavailable")
        ELSE IF exists /\ ~r.overwrite THEN Throw([r EXCEPT !.exists = exists], "FileExists")
        ELSE IF ~exists /\ ~r.create THEN Throw([r EXCEPT !.exists = exists], "FileNotFound")
        ELSE Exec([r EXCEPT !.exists = exists],
                  Cmd("mkdir_p", DirName(parseUri(r.uri).path), <<>>, <<>>, FALSE), "wf_mkdir")

WriteFileExists(t) == Settled(t, "wf_exists") /\ Step(t, WriteFileChecked(task[t]))

\* writeFile that fires its notification when it starts the write command.
WriteFileParentFiresEarly(r) ==
    LET x == Awaited(r)
    IN  IF x.threw THEN Throw(r, "Unavailable")
        ELSE Exec(Fire(r, <<Event(IF r.exists THEN "Changed" ELSE "Created", r.uri)>>),
                  Cmd("write", parseUri(r.uri).path, <<>>, B64Encode(r.content), FALSE),
                  "wf_write")

\* writeFile after mkdir -p: lines 192-195 and 544-547
WriteFileParent(r) ==
    LET x == Awaited(r)
    IN  IF x.threw THEN Throw(r, "Unavailable")
        ELSE Exec(r, Cmd("write", parseUri(r.uri).path, <<>>, B64Encode(r.content), FALSE),
                  "wf_write")

WriteFileMkdir(t) == Settled(t, "wf_mkdir") /\ Step(t, WriteFileParent(task[t]))

\* writeFile that fires once per attempt of its write command.
RECURSIVE FireTimes(_, _, _)
FireTimes(r, events, n) ==
    IF n = 0 THEN r ELSE FireTimes([r EXCEPT !.fired = Append(@, events)], events, n - 1)

WriteFileFinishPerAttempt(r) ==
    LET x == Awaited(r)
    IN  IF x.threw THEN Throw(r, "Unavailable")
        ELSE Return(FireTimes(r, <<[type |-> IF r.exists THEN "Changed" ELSE "Created",
                                    uri |-> r.uri]>>, r.i + 1),
                    "ok", <<>>)

\* writeFile after the write command: lines 195-207 and 547-559
WriteFileFinish(r) ==
    LET x == Awaited(r)
    IN  IF x.threw THEN Throw(r, "Unavailable")
        ELSE Return(Fire(r, <<Event(IF r.exists THEN "Changed" ELSE "Created", r.uri)>>),
                    "ok", <<>>)

WriteFileWritten(t) ==
    /\ Settled(t, "wf_write")
    /\ task' = [task EXCEPT ![t] = WriteFileFinish(task[t])]
    /\ nWriteFired' = nWriteFired + Len(task'[t].fired)
    /\ nWriteOk' = nWriteOk + (IF task'[t].res.tag = "ok" THEN 1 ELSE 0)
    /\ wrote' = IF task'[t].res.tag = "ok" /\ task[t].create
                THEN [uri |-> task[t].uri, content |-> task[t].content, ok |-> TRUE]
                ELSE NoWrite
    /\ UNCHANGED <<ext, variant, client, spriteCache, clientReadyResolve, readyResolved,
                   fs, nCalls>>

\* createDirectory up to mkdir -p: lines 210-215 and 562-571
CreateDirectoryStart(uri) ==
    Begin(Call("createDirectory", uri), parseUri(uri).spriteName,
          Cmd("mkdir_p", parseUri(uri).path, <<>>, <<>>, FALSE), "mkdir")

\* Directories are made at /d and at the root of s2.
DirUris == {<<"s1", PathD>>, <<"s2", <<>>>>}

CreateDirectoryCall(t) ==
    \E uri \in DirUris : MutCall(t, CreateDirectoryStart(uri), parseUri(uri).spriteName)

\* createDirectory after mkdir -p: lines 216-224 and 572-580
CreateDirectoryFinish(r) ==
    LET x == Awaited(r)
        failed == IF variant = "safe" THEN x.exitCode # 0
                  ELSE x.stderr # <<>> /\ Includes(x.stderr, "error")
    IN  IF x.threw \/ failed THEN Throw(r, "Unavailable")
        ELSE Return(Fire(r, <<Event("Created", r.uri)>>), "ok", <<>>)

CreateDirectoryDone(t) == Settled(t, "mkdir") /\ Step(t, CreateDirectoryFinish(task[t]))

\* delete up to rm: lines 227-233 and 583-593
DeleteStart(uri, recursive) ==
    Begin([Call("delete", uri) EXCEPT !.recursive = recursive], parseUri(uri).spriteName,
          Cmd("rm", parseUri(uri).path, <<>>, <<>>, recursive), "rm")

DeleteCall(t) ==
    \E uri \in Uris, recursive \in BOOLEAN :
        MutCall(t, DeleteStart(uri, recursive), parseUri(uri).spriteName)

\* delete after rm: lines 233-239 and 593-599
DeleteFinish(r) ==
    LET x == Awaited(r)
    IN  IF x.threw THEN Throw(r, "Unavailable")
        ELSE Return(Fire(r, <<Event("Deleted", r.uri)>>), "ok", <<>>)

DeleteDone(t) == Settled(t, "rm") /\ Step(t, DeleteFinish(task[t]))

\* The mv command of rename: lines 260 and 624
MvCmd(r) == Cmd("mv", parseUri(r.uri).path, parseUri(r.uri2).path, <<>>, FALSE)

\* rename up to its first await: lines 242-260 and 602-624
RenameStart(oldUri, newUri, overwrite) ==
    LET r == [Call("rename", oldUri) EXCEPT !.uri2 = newUri, !.overwrite = overwrite]
    IN  IF parseUri(oldUri).spriteName # parseUri(newUri).spriteName
        THEN Throw(r, "NoPermissions")
        ELSE IF ~overwrite
        THEN Begin(r, parseUri(oldUri).spriteName,
                   Cmd("test_e", parseUri(newUri).path, <<>>, <<>>, variant = "safe"),
                   "mv_exists")
        ELSE Begin(r, parseUri(oldUri).spriteName, MvCmd(r), "mv")

\* rename that acquires the handle before it compares the sessions.
RenameCacheEager(oldUri, newUri) == getSpriteCache(parseUri(oldUri).spriteName)

\* getSprite(oldSprite) of rename is reached within one session only.
RenameCache(oldUri, newUri) ==
    IF parseUri(oldUri).spriteName # parseUri(newUri).spriteName THEN spriteCache
    ELSE getSpriteCache(parseUri(oldUri).spriteName)

\* The sources are files; the pairs are within s1, within s2 and across.
RenamePairs ==
    { <<<<"s1", PathA>>, <<"s1", PathDA>>>>,
      <<<<"s1", PathDA>>, <<"s1", PathA>>>>,
      <<<<"s1", PathA>>, <<"s1", PathD>>>>,
      <<<<"s1", PathA>>, <<"s2", <<>>>>>>,
      <<<<"s2", <<>>>>, <<"s1", PathA>>>> }

RenameCall(t) ==
    \E pair \in RenamePairs, overwrite \in BOOLEAN :
        /\ CanCall(t)
        /\ nCalls' = nCalls + 1
        /\ task' = [task EXCEPT ![t] = RenameStart(pair[1], pair[2], overwrite)]
        /\ spriteCache' = RenameCache(pair[1], pair[2])
        /\ Frame
        /\ wrote' = NoWrite
        /\ UNCHANGED <<nWriteFired, nWriteOk>>

\* rename that moves whatever the destination check answered.
RenameCheckedMovesAnyway(r) ==
    LET x == Awaited(r)
    IN  IF x.threw THEN Throw(r, "Unavailable")
        ELSE Exec(r, MvCmd(r), "mv")

\* rename after the destination check: lines 255-260 and 619-624
RenameChecked(r) ==
    LET x == Awaited(r)
    IN  IF x.threw THEN Throw(r, "Unavailable")
        ELSE IF Trim(x.stdout) = <<"EXISTS">> THEN Throw(r, "FileExists")
        ELSE Exec(r, MvCmd(r), "mv")

RenameExists(t) == Settled(t, "mv_exists") /\ Step(t, RenameChecked(task[t]))

\* rename after mv: lines 260-272 and 624-636
RenameFinish(r) ==
    LET x == Awaited(r)
    IN  IF x.threw THEN Throw(r, "Unavailable")
        ELSE Return(Fire(r, <<Event("Deleted", r.uri), Event("Created", r.uri2)>>),
                    "ok", <<>>)

RenameMoved(t) == Settled(t, "mv") /\ Step(t, RenameFinish(task[t]))

\* The caller has the outcome of its call and is free to call again.
Observe(t) ==
    /\ task[t].pc = "done"
    /\ task' = [task EXCEPT ![t] = Idle]
    /\ wrote' = IF task[t].op = "writeFile" THEN wrote ELSE NoWrite
    /\ UNCHANGED <<ext, variant, client, spriteCache, clientReadyResolve, readyResolved,
                   fs, nCalls, nWriteFired, nWriteOk>>

\* ------------------------------------------------------------ behaviours
\* No call is in flight.
Quiet == \A u \in Tasks : task[u].pc = "idle"

\* The callers take turns: a call starts when no other is in flight.
Next ==
    \/ SetClient
    \/ \E t \in Tasks :
         \/ Quiet /\ StatCall(t)
         \/ Quiet /\ ReadDirectoryCall(t)
         \/ Quiet /\ ReadFileCall(t)
         \/ Quiet /\ WriteFileCall(t)
         \/ Quiet /\ CreateDirectoryCall(t)
         \/ Quiet /\ DeleteCall(t)
         \/ Quiet /\ RenameCall(t)
         \/ WaitResume(t) \/ WaitTimeout(t)
         \/ RemoteExec(t) \/ TransportFail(t) \/ RetryAfterDelay(t)
         \/ StatDone(t) \/ ReadDirectoryDone(t)
         \/ ReadFileChecked(t) \/ ReadFileRead(t)
         \/ WriteFileExists(t) \/ WriteFileMkdir(t) \/ WriteFileWritten(t)
         \/ CreateDirectoryDone(t) \/ DeleteDone(t)
         \/ RenameExists(t) \/ RenameMoved(t)
         \/ Observe(t)

Spec == Init /\ [][Next]_vars

\* ------------------------------------------------------------ partial failures
\* The fields a rejection of sprite.exec may carry when the command ran and
\* exited non-zero: safeExec reads error.stdout, error.stderr and
\* error.exitCode each as possibly undefined (lines 355-359).
PartialFailures == (SUBSET {"stdout", "stderr", "exitCode"}) \ {{}}

\* sprite.exec(command) rejects after the command ran and exited non-zero,
\* with a failure object that carries the fields `has`.
RemoteExecPartial(t) ==
    LET r == task[t]
        s == r.sprite.name
        o == Run(r.cmd, fs[s], FALSE)
    IN  /\ r.pc = "exec"
        /\ r.reply = NoReply
        /\ o.exit # 0
        /\ \E has \in PartialFailures :
             /\ fs' = [fs EXCEPT ![s] = o.tree]
             /\ task' = [task EXCEPT ![t] =
                   [r EXCEPT !.reply = [tag |-> "exit", has |-> has,
                                        stdout |-> IF "stdout" \in has THEN o.stdout ELSE <<>>,
                                        stderr |-> IF "stderr" \in has THEN o.stderr ELSE <<>>,
                                        exitCode |-> IF "exitCode" \in has THEN o.exit ELSE 0],
                             !.log = Logged(r, "exit", fs[s])]]
        /\ UNCHANGED <<ext, variant, client, spriteCache, clientReadyResolve, readyResolved,
                       nCalls, nWriteFired, nWriteOk, wrote>>

\* The provider over a session whose rejections may be partial.
NextExec ==
    \/ Next
    \/ \E t \in Tasks : RemoteExecPartial(t)

SpecExec == Init /\ [][NextExec]_vars

\* ------------------------------------------------------------ claims
Done(t) == task[t].pc = "done"

Ok(t) == task[t].res.tag = "ok"

SessionOf(r) == parseUri(r.uri).spriteName

PathOf(r) == parseUri(r.uri).path

\* What the tree of session n holds at path p.
NodeAt(n, p) == IF p \in Paths THEN fs[n][p] ELSE Dir

\* Every command of the call ran to the end with exit status 0.
AllCommandsOk(r) == \A i \in 1..Len(r.log) : r.log[i].out = "ok"

\* No command of the call failed at transport level.
NoTransportFailure(r) == \A i \in 1..Len(r.log) : r.log[i].out # "transport"

\* C1: a change notification is emitted only once the call is over and only
\* if every remote command of the call, its last one included, completed
\* successfully (no transport failure, no non-zero exit).
C1_NotifyOnlyAfterSuccess ==
    \A t \in Tasks :
        task[t].fired # <<>> => Done(t) /\ AllCommandsOk(task[t])

\* C2: a readFile that directly follows a writeFile(path, B) with create:true
\* that returned normally, on the same address, returns exactly B.
C2_WriteReadRoundTrip ==
    \A t \in Tasks :
        (Done(t) /\ task[t].op = "readFile" /\ wrote.ok /\ NoTransportFailure(task[t]))
            => Ok(t) /\ task[t].res.val = wrote.content

\* C3: with a registry installed and the stat command able to run, stat on a
\* path that does not exist fails with FileNotFound (NotFound), also when the
\* command prints nothing.
C3_StatMissingIsNotFound ==
    \A t \in Tasks :
        (/\ Done(t) /\ task[t].op = "stat"
         /\ Len(task[t].log) = 1
         /\ task[t].log[1].out # "transport"
         /\ task[t].log[1].node.k = "absent")
            => task[t].res.tag = "FileNotFound"

\* The stat command printed nothing for a missing path and stat reported
\* FileNotFound.
C3_Witness ==
    \E t \in Tasks :
        /\ Done(t) /\ task[t].op = "stat"
        /\ Len(task[t].log) = 1
        /\ task[t].log[1].out = "exit"
        /\ task[t].log[1].node.k = "absent"
        /\ task[t].res.tag = "FileNotFound"

\* C4: writeFile with create:false on a path that does not exist when the
\* existence check runs fails with FileNotFound (NotFound), whatever
\* overwrite is.
C4_WriteNoCreateMissing ==
    \A t \in Tasks :
        (/\ Done(t) /\ task[t].op = "writeFile" /\ ~task[t].create
         /\ task[t].log # <<>>
         /\ task[t].log[1].out = "ok"
         /\ task[t].log[1].node.k = "absent")
            => task[t].res.tag = "FileNotFound"

\* writeFile with create:false and overwrite:true failed with FileNotFound
\* on a missing path.
C4_Witness ==
    \E t \in Tasks :
        /\ Done(t) /\ task[t].op = "writeFile" /\ ~task[t].create /\ task[t].overwrite
        /\ task[t].log # <<>>
        /\ task[t].log[1].out = "ok"
        /\ task[t].log[1].node.k = "absent"
        /\ task[t].res.tag = "FileNotFound"

\* C5: writeFile with overwrite:false on a path that exists when the
\* existence check runs fails with FileExists (AlreadyExists), whatever
\* create is; it runs no command after the check and the path holds what it
\* held.
C5_WriteNoOverwriteExisting ==
    \A t \in Tasks :
        (/\ Done(t) /\ task[t].op = "writeFile" /\ ~task[t].overwrite
         /\ task[t].log # <<>>
         /\ task[t].log[1].out = "ok"
         /\ task[t].log[1].node.k # "absent")
            => /\ task[t].res.tag = "FileExists"
               /\ Len(task[t].log) = 1
               /\ NodeAt(SessionOf(task[t]), PathOf(task[t])) = task[t].log[1].node

\* writeFile with create:true and overwrite:false failed with FileExists on
\* an existing file.
C5_Witness ==
    \E t \in Tasks :
        /\ Done(t) /\ task[t].op = "writeFile" /\ task[t].create /\ ~task[t].overwrite
        /\ task[t].log # <<>>
        /\ task[t].log[1].node.k = "file"
        /\ task[t].res.tag = "FileExists"

CrossSession(r) ==
    r.op = "rename" /\ parseUri(r.uri).spriteName # parseUri(r.uri2).spriteName

\* C6: a rename whose two addresses name different sessions fails with
\* NoPermissions (PermissionDenied) at once: no remote command, no handle
\* acquired, the session cache and the remote trees unchanged, no
\* notification; with or without a registry.
C6_CrossSessionRename ==
    [][\A t \in Tasks :
          (task[t].pc = "idle" /\ CrossSession(task'[t]))
              => /\ task'[t].pc = "done"
                 /\ task'[t].res.tag = "NoPermissions"
                 /\ task'[t].log = <<>>
                 /\ task'[t].fired = <<>>
                 /\ task'[t].sprite = NoHandle
                 /\ spriteCache' = spriteCache
                 /\ fs' = fs]_vars

\* A rename across sessions was refused while a registry is installed and
\* the cache holds no handle for its source session.
C6_Witness ==
    \E t \in Tasks :
        /\ Done(t) /\ CrossSession(task[t])
        /\ task[t].res.tag = "NoPermissions"
        /\ client > 0
        /\ spriteCache[SessionOf(task[t])] = NoHandle

ReadOps == {"stat", "readDirectory", "readFile"}

\* C7 (the variant with waitForClient): stat, readDirectory and readFile
\* called before any registry is installed do not fail at the call but wait;
\* once setClient has resolved the gate the call goes on with a handle
\* minted by the installed registry and its first command issued.
C7_ReadinessWaitSucceeds ==
    [][\A t \in Tasks :
          variant = "safe" =>
            /\ (task[t].pc = "idle" /\ task'[t].op \in ReadOps /\ client = 0)
                  => task'[t].pc = "waitForClient"
            /\ (task[t].pc = "waitForClient" /\ readyResolved /\ task'[t] # task[t])
                  => /\ client > 0
                     /\ task'[t].pc = "exec"
                     /\ task'[t].reply = NoReply
                     /\ task'[t].sprite = [name |-> SessionOf(task[t]), reg |-> client]
                     /\ task'[t].cmd = FirstCmd(task[t].op, PathOf(task[t]))]_vars

\* A stat that waited for the client ran its command and returned.
C7_Witness ==
    \E t \in Tasks :
        /\ Done(t) /\ task[t].op = "stat" /\ task[t].waited = "ready"
        /\ task[t].log # <<>>
        /\ Ok(t)

\* C8: an operation whose wait for the client ends by the timeout fails
\* with Unavailable.
C8_TimeoutIsUnavailable ==
    \A t \in Tasks :
        (Done(t) /\ task[t].waited = "timeout") => task[t].res.tag = "Unavailable"

\* C9: every handle in the session cache was minted by the installed
\* registry; setClient leaves the cache empty; a handle a call acquires is
\* one of the registry installed at that moment.
C9_CacheCurrentRegistry ==
    /\ [](\A n \in Sessions :
            spriteCache[n] # NoHandle => spriteCache[n] = [name |-> n, reg |-> client])
    /\ [][/\ client' # client => \A n \in Sessions : spriteCache'[n] = NoHandle
          /\ \A t \in Tasks :
               (task'[t].sprite # task[t].sprite /\ task'[t].sprite # NoHandle)
                  => task'[t].sprite.reg = client /\ client' = client]_vars

\* After a second installation the cache holds a handle of the new registry.
C9_Witness ==
    /\ client > 1
    /\ \E n \in Sessions : spriteCache[n] = [name |-> n, reg |-> client]

\* C10: a writeFile that returns normally has fired exactly one
\* notification, however many attempts its commands took, and the
\* notifications fired by writeFile number the writeFile calls that
\* returned normally.
C10_OneNotificationPerWrite ==
    /\ \A t \in Tasks :
         (Done(t) /\ task[t].op = "writeFile" /\ Ok(t)) => Len(task[t].fired) = 1
    /\ nWriteFired = nWriteOk

\* The retry variant: the second of two writes that returned normally, its
\* write command having succeeded on the third attempt.
C10_Witness ==
    /\ variant = "retry"
    /\ nWriteOk = 2
    /\ \E t \in Tasks :
         /\ Done(t) /\ task[t].op = "writeFile" /\ Ok(t)
         /\ task[t].i = Retries
         /\ AllCommandsOk(task[t])

\* ------------------------------------------------------------ concurrent callers
\* Every public operation is an independent asynchronous task: a call may
\* start while another is in flight.  The calls of the concurrent
\* behaviours address one file of each session.
ConcInput(r) ==
    /\ r.uri \in {<<"s1", PathA>>, <<"s2", <<>>>>}
    /\ r.op = "writeFile" => r.create /\ r.overwrite
    /\ r.op = "delete" => ~r.recursive
    /\ r.op = "rename" => r.uri2 = <<"s1", PathDA>>

InitConc == Init /\ fs["s1"][PathA].k = "file"

NextConc ==
    \/ SetClient
    \/ \E t \in Tasks :
         \/ StatCall(t) /\ ConcInput(task'[t])
         \/ ReadDirectoryCall(t) /\ ConcInput(task'[t])
         \/ ReadFileCall(t) /\ ConcInput(task'[t])
         \/ WriteFileCall(t) /\ ConcInput(task'[t])
         \/ CreateDirectoryCall(t) /\ ConcInput(task'[t])
         \/ DeleteCall(t) /\ ConcInput(task'[t])
         \/ RenameCall(t) /\ ConcInput(task'[t])
         \/ WaitResume(t) \/ WaitTimeout(t)
         \/ RemoteExec(t) \/ TransportFail(t) \/ RetryAfterDelay(t)
         \/ StatDone(t) \/ ReadDirectoryDone(t)
         \/ ReadFileChecked(t) \/ ReadFileRead(t)
         \/ WriteFileExists(t) \/ WriteFileMkdir(t) \/ WriteFileWritten(t)
         \/ CreateDirectoryDone(t) \/ DeleteDone(t)
         \/ RenameExists(t) \/ RenameMoved(t)
         \/ Observe(t)

SpecConc == InitConc /\ [][NextConc]_vars

\* ------------------------------------------------------------ racing callers
\* Concurrent readFile, writeFile (create:true, overwrite:false) and delete
\* calls on one path of one session, which is absent or a file at the
\* start.
RaceInput(r) ==
    /\ r.uri = <<"s1", PathA>>
    /\ r.op = "writeFile" => r.create /\ ~r.overwrite
    /\ r.op = "delete" => ~r.recursive

InitRace == Init /\ fs["s1"][PathD].k # "file" /\ fs["s1"][PathDA].k = "absent"

NextRace ==
    \/ SetClient
    \/ \E t \in Tasks :
         \/ ReadFileCall(t) /\ RaceInput(task'[t])
         \/ WriteFileCall(t) /\ RaceInput(task'[t])
         \/ DeleteCall(t) /\ RaceInput(task'[t])
         \/ WaitResume(t) \/ WaitTimeout(t)
         \/ RemoteExec(t) \/ TransportFail(t) \/ RetryAfterDelay(t)
         \/ ReadFileChecked(t) \/ ReadFileRead(t)
         \/ WriteFileExists(t) \/ WriteFileMkdir(t) \/ WriteFileWritten(t)
         \/ DeleteDone(t)
         \/ Observe(t)

SpecRace == InitRace /\ [][NextRace]_vars

\* ------------------------------------------------------------ listings
\* readDirectory on what `ls -1Ap` may print: up to MaxLines lines, each
\* a name with or without a marker, among them the empty line, the lines
\* that are only a marker, '.' and '..', and a name that ends in two
\* markers.
MaxLines == 3

ListingLines ==
    { <<>>, <<"data.txt">>, <<"logs", "/">>, <<"ln", "@">>, <<"run", "*">>,
      <<"sock", "=">>, <<"fifo", "|">>, <<".">>, <<".", ".">>, <<"/">>,
      <<".", "/">>, <<".", ".", "/">>, <<"x", "/", "@">>, <<" ", "s">> }

RECURSIVE JoinLines(_)
JoinLines(lines) ==
    IF lines = <<>> THEN <<>> ELSE Head(lines) \o <<"\n">> \o JoinLines(Tail(lines))

Listings == UNION { [1..n -> ListingLines] : n \in 0..MaxLines }

\* A readDirectory call on the root of s1 whose command has just printed
\* a listing.
InitParse ==
    /\ ext = ExtInit
    /\ variant \in {"retry", "safe"}
    /\ client = 1
    /\ spriteCache = [n \in Sessions |-> IF n = "s1" THEN [name |-> "s1", reg |-> 1]
                                         ELSE NoHandle]
    /\ clientReadyResolve = FALSE
    /\ readyResolved = (variant = "safe")
    /\ fs = [n \in Sessions |-> EmptyTree]
    /\ \E lines \in Listings :
         task = [t \in Tasks |->
                   IF t = 1
                   THEN [Exec([Call("readDirectory", <<"s1", <<>>>>)
                                  EXCEPT !.sprite = [name |-> "s1", reg |-> 1]],
                              FirstCmd("readDirectory", Root), "ls")
                            EXCEPT !.reply = [tag |-> "ok", has |-> {"stdout", "stderr"},
                                              stdout |-> JoinLines(lines),
                                              stderr |-> <<>>, exitCode |-> 0],
                                   !.log = <<[kind |-> "ls", p |-> Root, out |-> "ok",
                                              node |-> Dir]>>]
                   ELSE Idle]
    /\ nCalls = 1
    /\ nWriteFired = 0
    /\ nWriteOk = 0
    /\ wrote = NoWrite

NextParse == \E t \in Tasks : ReadDirectoryDone(t) \/ Observe(t)

SpecParse == InitParse /\ [][NextParse]_vars

\* ------------------------------------------------------------ activation
ProviderVars ==
    <<variant, client, spriteCache, clientReadyResolve, readyResolved, fs, task,
      nCalls, nWriteFired, nWriteOk, wrote>>

\* A run is over; `how` is what it came to.
Finish(e, r, how) == [e EXCEPT !.pc[r] = "done", !.end[r] = how]

\* loadSDK() up to its first await, lines 7-10: with SpritesClient unset the
\* caller waits for import('@fly/sprites'); otherwise the call returns and
\* the caller goes on after its own await (lines 35, 316).
loadSDK(e, r) ==
    IF ~e.SpritesClient THEN [e EXCEPT !.pc[r] = "import1"]
    ELSE [e EXCEPT !.pc[r] = "loaded"]

\* lines 313-316: secrets.get('spriteToken') resolves.  The storage holds
\* the token a command stored, or what an earlier session left there.
RestoreToken ==
    /\ ext.pc[Restore] = "idle"
    /\ \E left \in BOOLEAN :
         LET token == ext.secret # 0 \/ left
         IN  ext' = IF token THEN loadSDK(ext, Restore)
                    ELSE Finish(ext, Restore, "no token")
    /\ UNCHANGED ProviderVars

\* lines 25-33: the command runs, the input box returns and, with a token,
\* secrets.store is awaited.
SetTokenCommand(r) ==
    /\ r # Restore
    /\ ext.pc[r] = "idle"
    /\ \E token \in BOOLEAN :
         ext' = IF token THEN [ext EXCEPT !.pc[r] = "store"]
                ELSE Finish(ext, r, "no token")
    /\ UNCHANGED ProviderVars

\* lines 33-35: the token is stored and loadSDK is called.
TokenStored(r) ==
    /\ ext.pc[r] = "store"
    /\ ext' = loadSDK([ext EXCEPT !.secret = r], r)
    /\ UNCHANGED ProviderVars

\* lines 10-12: import('@fly/sprites') resolves, SpritesClient is assigned
\* and import('./spriteFileSystem') is awaited.
SdkImported(r) ==
    /\ ext.pc[r] = "import1"
    /\ ext' = [ext EXCEPT !.SpritesClient = TRUE, !.pc[r] = "import2"]
    /\ UNCHANGED ProviderVars

\* lines 12-13 and spriteFileSystem.ts 283-297: the second import resolves,
\* a provider is constructed and assigned to spriteFs; loadSDK returns.
ProviderCreated(r) ==
    /\ ext.pc[r] = "import2"
    /\ ext' = [ext EXCEPT !.insts = Append(@, [client |-> 0, readyResolved |-> FALSE]),
                          !.spriteFs = Len(ext.insts) + 1,
                          !.pc[r] = "loaded"]
    /\ UNCHANGED ProviderVars

\* lines 14-17 with 48-50 / 325-327: an import rejects; loadSDK rethrows
\* and the run ends in its catch.
ImportFailed(r) ==
    /\ ext.pc[r] \in {"import1", "import2"}
    /\ ext' = Finish(ext, r, "load failed")
    /\ UNCHANGED ProviderVars

\* spriteFileSystem.ts 299-307 (also 15-18), on the instance p
ProviderSetClient(p, c) ==
    [client |-> c, readyResolved |-> p.readyResolved \/ variant = "safe"]

\* lines 36-50 and 317-327, after `await loadSDK()`: the registry is built
\* and assigned, spriteFs.setClient is called (a TypeError when spriteFs is
\* still undefined) and registerFileSystemProvider is called, which throws
\* when the scheme has a provider already; the catch ends the run.
Install(r) ==
    /\ ext.pc[r] = "loaded"
    /\ LET e == [ext EXCEPT !.globalClient = r]
       IN  ext' =
             IF e.spriteFs = 0 THEN Finish(e, r, "error")
             ELSE LET f == [e EXCEPT !.insts[e.spriteFs] = ProviderSetClient(@, r),
                                     !.regCalls = @ + 1]
                  IN  IF f.registered # 0 THEN Finish(f, r, "error")
                      ELSE Finish([f EXCEPT !.registered = e.spriteFs], r, "ok")
    /\ UNCHANGED ProviderVars

NextExt ==
    \/ RestoreToken
    \/ \E r \in Runs :
         \/ SetTokenCommand(r)
         \/ TokenStored(r)
         \/ SdkImported(r)
         \/ ProviderCreated(r)
         \/ ImportFailed(r)
         \/ Install(r)

SpecExt == Init /\ [][NextExt]_vars

\* ------------------------------------------------------------ progress
\* The event loop runs a continuation that is ready: the 5000 ms timer of
\* waitForClient fires unless the gate opened first, and a waiter of the
\* resolved gate is resumed.
SpecLive ==
    /\ Spec
    /\ \A t \in Tasks : WF_vars(WaitTimeout(t)) /\ WF_vars(WaitResume(t))

\* C11: in the error-coercion variant, when sprite.exec rejected after the
\* command ran and exited non-zero (the failure carries any of stdout,
\* stderr, exitCode), safeExec returns a result with a non-zero exitCode and
\* does not raise.
C11_NonZeroExitIsResult ==
    \A t \in Tasks :
        (variant = "safe" /\ task[t].pc = "exec" /\ task[t].reply.tag = "exit")
            => /\ ~safeExec(task[t]).threw
               /\ safeExec(task[t]).exitCode # 0

Taxonomy == {"FileNotFound", "FileExists", "NoPermissions", "Unavailable"}

\* The last command of the call did not complete with exit status 0.
LastCommandFailed(r) == r.log # <<>> /\ r.log[Len(r.log)].out # "ok"

IsEmptyDir(tree, p) ==
    /\ Kind(tree, p) = "dir"
    /\ \A q \in Paths : DirName(q) = p => tree[q].k = "absent"

\* C13: readDirectory on an existing directory without entries, its command
\* not failing at transport level, returns the empty sequence.  (The calls
\* of Spec run one at a time and readDirectory changes nothing, so the tree
\* is the one its command listed.)
C13_EmptyDirectoryListsEmpty ==
    \A t \in Tasks :
        (/\ Done(t) /\ task[t].op = "readDirectory"
         /\ task[t].log # <<>>
         /\ NoTransportFailure(task[t])
         /\ IsEmptyDir(fs[SessionOf(task[t])], PathOf(task[t])))
            => Ok(t) /\ task[t].res.val = <<>>

\* readDirectory returned the empty sequence for an empty directory that is
\* not the root.
C13_Witness ==
    \E t \in Tasks :
        /\ Done(t) /\ task[t].op = "readDirectory"
        /\ PathOf(task[t]) = PathD
        /\ IsEmptyDir(fs[SessionOf(task[t])], PathD)
        /\ AllCommandsOk(task[t])
        /\ Ok(t) /\ task[t].res.val = <<>>

\* C14: delete on a path that does not exist when rm runs, rm not failing
\* at transport level, returns without error, for both values of recursive.
C14_DeleteMissingSucceeds ==
    \A t \in Tasks :
        (/\ Done(t) /\ task[t].op = "delete"
         /\ Len(task[t].log) = 1
         /\ task[t].log[1].out # "transport"
         /\ task[t].log[1].node.k = "absent")
            => Ok(t)

\* A recursive delete of a missing path returned normally in the retry
\* variant.
C14_Witness ==
    \E t \in Tasks :
        /\ variant = "retry"
        /\ Done(t) /\ task[t].op = "delete" /\ task[t].recursive
        /\ Len(task[t].log) = 1
        /\ task[t].log[1].out = "ok"
        /\ task[t].log[1].node.k = "absent"
        /\ Ok(t)

\* C15: in the retry variant execWithRetry calls sprite.exec at most
\* Retries + 1 = 3 times for one command (i is the index of the attempt);
\* after an attempt that succeeded the command is not attempted again and
\* the operation goes on; an attempt that failed at transport level before
\* the third is followed by another attempt; after a failed third attempt
\* the error is raised and the operation ends with Unavailable.
C15_BoundedRetry ==
    /\ [](\A t \in Tasks : task[t].i <= Retries)
    /\ [][\A t \in Tasks :
            (/\ variant = "retry"
             /\ task[t].pc = "exec"
             /\ task[t].reply # NoReply
             /\ task'[t] # task[t])
                => IF task[t].reply.tag = "ok"
                   THEN \/ task'[t].pc = "done"
                        \/ task'[t].i = 0 /\ task'[t].at # task[t].at
                   ELSE IF task[t].i < Retries
                   THEN task[t].reply.tag = "transport"
                           => task'[t] = [task[t] EXCEPT !.i = @ + 1, !.reply = NoReply]
                   ELSE /\ execWithRetry(task[t]).threw
                        /\ task'[t].pc = "done"
                        /\ task'[t].res.tag = "Unavailable"
                        /\ task'[t].log = task[t].log]_vars

\* The retry variant gave up on a command after its third attempt failed at
\* transport level.
C15_Witness ==
    \E t \in Tasks :
        /\ variant = "retry"
        /\ Done(t) /\ task[t].res.tag = "Unavailable"
        /\ task[t].i = Retries
        /\ task[t].log # <<>>
        /\ task[t].log[Len(task[t].log)].out = "transport"

\* C16: in the retry variant an attempt that ended with a non-zero exit
\* status (a rejection carrying stdout, stderr, exitCode) is final: the
\* command is not attempted again.
C16_NonZeroExitNotRetried ==
    [][\A t \in Tasks :
          (variant = "retry" /\ task[t].pc = "exec" /\ task[t].reply.tag = "exit")
              => task'[t] # [task[t] EXCEPT !.i = @ + 1, !.reply = NoReply]]_vars

MutOps == {"writeFile", "createDirectory", "delete", "rename"}

\* C17: writeFile, createDirectory, delete and same-session rename issued
\* with no registry installed wait on the readiness gate: such a call ends
\* without a handle only after it has waited until the timeout.
C17_MutationsGateOnReadiness ==
    \A t \in Tasks :
        (/\ variant = "safe"
         /\ Done(t) /\ task[t].op \in MutOps /\ ~CrossSession(task[t])
         /\ task[t].sprite = NoHandle)
            => task[t].waited = "timeout"

\* C18: when the last command of writeFile (the write), delete (the rm) or
\* rename (the mv) ended with a non-zero exit status, the operation fails
\* with Unavailable.
C18_FinalFailureReported ==
    \A t \in Tasks :
        (/\ Done(t) /\ task[t].op \in {"writeFile", "delete", "rename"}
         /\ task[t].log # <<>>
         /\ task[t].log[Len(task[t].log)].kind \in {"write", "rm", "mv"}
         /\ task[t].log[Len(task[t].log)].out = "exit")
            => task[t].res.tag = "Unavailable"

\* Task t calls sprite.exec in this step (a first attempt or a retry).
Issues(t) ==
    /\ task'[t].pc = "exec"
    /\ task'[t].reply = NoReply
    /\ task[t].pc # "exec" \/ task[t].reply # NoReply

\* C19: every remote command is issued through a handle minted by the
\* registry installed at that moment, the later commands of a multi-step
\* operation included.
C19_NoStaleHandleInFlight ==
    [][\A t \in Tasks : Issues(t) => task'[t].sprite.reg = client']_vars

\* Task t obtains a handle for session n from getSprite in this step.
Acquires(t, n) ==
    /\ task[t].sprite = NoHandle
    /\ task'[t].sprite # NoHandle
    /\ task'[t].sprite.name = n

C21_OneShotReadiness ==
    /\ [](/\ readyResolved => client > 0
          /\ readyResolved => ~clientReadyResolve
          /\ variant = "safe" => (readyResolved <=> client > 0))
    /\ [][/\ client > 0 => client' > 0
          /\ readyResolved => readyResolved'
          /\ ~clientReadyResolve => ~clientReadyResolve'
          /\ (~readyResolved /\ readyResolved') => client = 0 /\ client' > 0
          /\ (client > 0 /\ client' # client)
                => /\ spriteCache' = [n \in Sessions |-> NoHandle]
                   /\ UNCHANGED <<readyResolved, clientReadyResolve, task>>]_vars

\* A second registry is installed while a call that waited at the gate and
\* was resumed by the first is still in flight.
C21_Witness ==
    /\ variant = "safe"
    /\ client > 1
    /\ readyResolved /\ ~clientReadyResolve
    /\ \E t \in Tasks : task[t].waited = "ready" /\ task[t].pc = "exec"

\* C22: a stat, readDirectory or readFile call that waits at the readiness
\* gate leaves it: it goes on to its command or ends with an error, also
\* when no registry is ever installed.
C22_ReadinessWaitTerminates ==
    \A t \in Tasks :
        (task[t].pc = "waitForClient") ~> (task[t].pc \in {"exec", "done"})

\* A call that waited until the timeout with no registry installed is over.
C22_Witness ==
    \E t \in Tasks :
        /\ client = 0
        /\ Done(t) /\ task[t].op \in ReadOps /\ task[t].waited = "timeout"

SemanticFailure(r) ==
    r.pc = "done" /\ r.op = "writeFile" /\ r.res.tag \in {"FileExists", "FileNotFound"}

\* C23: a writeFile that failed with FileExists (AlreadyExists) or
\* FileNotFound (NotFound) ran one command, the existence check, which ran
\* once and answered; the failure follows that answer directly, with no
\* further command, no change of any remote tree and no notification.
C23_SemanticFailureNoMutation ==
    /\ [](\A t \in Tasks :
            /\ SemanticFailure(task[t])
                  => /\ Len(task[t].log) = 1
                     /\ task[t].log[1].kind = "test_e"
                     /\ task[t].log[1].out = "ok"
                     /\ task[t].fired = <<>>
                     /\ NodeAt(SessionOf(task[t]), PathOf(task[t])) = task[t].log[1].node
            /\ (task[t].op = "writeFile" /\ task[t].at = "wf_exists")
                  => task[t].reply.tag # "exit")
    /\ [][\A t \in Tasks :
            /\ (task[t].op = "writeFile" /\ task[t].at = "wf_exists") => fs' = fs
            /\ (~SemanticFailure(task[t]) /\ SemanticFailure(task'[t]))
                  => /\ task[t].at = "wf_exists"
                     /\ task[t].reply.tag = "ok"
                     /\ task'[t].log = task[t].log]_vars

\* A semantic failure has happened: FileExists on an existing file, or
\* FileNotFound on a missing one.
C23_Witness ==
    \E t \in Tasks :
        /\ SemanticFailure(task[t])
        /\ \/ task[t].res.tag = "FileExists" /\ task[t].log[1].node.k = "file"
           \/ task[t].res.tag = "FileNotFound" /\ task[t].log[1].node.k = "absent"

WriteOrder == <<"test_e", "mkdir_p", "write">>

\* C24: the commands of a writeFile call are the existence check, the mkdir
\* of the parent and the write, in this order; a command starts in the step
\* that takes the settled reply of the one before it (the check starts with
\* the call), and the notification is fired in the step that takes the
\* settled reply of the write command.
C24_WriteFileCommandOrder ==
    /\ [](\A t \in Tasks :
            task[t].op = "writeFile"
               => /\ Len(task[t].log) <= 3
                  /\ \A k \in 1..Len(task[t].log) : task[t].log[k].kind = WriteOrder[k]
                  /\ task[t].pc = "exec"
                        => task[t].cmd.kind
                              = WriteOrder[IF task[t].reply = NoReply /\ task[t].i = 0
                                           THEN Len(task[t].log) + 1
                                           ELSE Len(task[t].log)]
                  /\ task[t].fired # <<>>
                        => /\ Done(t)
                           /\ Len(task[t].log) = 3
                           /\ task[t].log[3].out # "transport")
    /\ [][\A t \in Tasks :
            /\ (task'[t].op = "writeFile" /\ task'[t].pc = "exec"
                /\ task'[t].cmd # task[t].cmd)
                  => \/ task'[t].cmd.kind = "test_e" /\ task[t].pc = "idle"
                     \/ /\ task'[t].cmd.kind = "mkdir_p"
                        /\ task[t].at = "wf_exists" /\ task[t].reply # NoReply
                     \/ /\ task'[t].cmd.kind = "write"
                        /\ task[t].at = "wf_mkdir" /\ task[t].reply # NoReply
            /\ (task'[t].op = "writeFile" /\ task'[t].fired # task[t].fired)
                  => task[t].at = "wf_write" /\ task[t].reply # NoReply]_vars

\* A writeFile ran its three commands and fired its notification.
C24_Witness ==
    \E t \in Tasks :
        /\ Done(t) /\ task[t].op = "writeFile" /\ Ok(t)
        /\ Len(task[t].log) = 3
        /\ task[t].fired # <<>>

\* C25: a rename within one session with overwrite:false whose destination
\* exists when the check runs fails with FileExists (AlreadyExists): the
\* check is its only command, no step of it changes a remote tree and it
\* fires nothing.  A rename with overwrite:true runs no command but mv.
C25_RenameOverwritePolicy ==
    /\ [](\A t \in Tasks :
            /\ (/\ Done(t) /\ task[t].op = "rename" /\ ~CrossSession(task[t])
                /\ ~task[t].overwrite
                /\ task[t].log # <<>>
                /\ task[t].log[1].out = "ok"
                /\ task[t].log[1].node.k # "absent")
                  => /\ task[t].res.tag = "FileExists"
                     /\ Len(task[t].log) = 1
                     /\ task[t].log[1].kind = "test_e"
                     /\ task[t].log[1].p = parseUri(task[t].uri2).path
                     /\ task[t].fired = <<>>
                     /\ NodeAt(SessionOf(task[t]), parseUri(task[t].uri2).path)
                           = task[t].log[1].node
            /\ (task[t].op = "rename" /\ task[t].overwrite)
                  => /\ \A k \in 1..Len(task[t].log) : task[t].log[k].kind = "mv"
                     /\ task[t].pc = "exec" => task[t].cmd.kind = "mv")
    /\ [][\A t \in Tasks :
            (task[t].op = "rename" /\ task[t].at = "mv_exists") => fs' = fs]_vars

\* A rename with overwrite:false onto an existing file failed with
\* FileExists.
C25_Witness ==
    \E t \in Tasks :
        /\ Done(t) /\ task[t].op = "rename" /\ ~task[t].overwrite
        /\ task[t].log # <<>>
        /\ task[t].log[1].node.k = "file"
        /\ task[t].res.tag = "FileExists"

\* C26: nothing serialises the calls on a path.  A writeFile with
\* overwrite:false that succeeded saw the path absent at its own check, and
\* its write command, once it runs on a path that is absent or a file,
\* leaves the file with this call's content whatever it held and whatever
\* other calls are in flight.  So two such calls on an absent path can both
\* pass the check and both succeed, one write replacing the other.
C26_NoMutualExclusion ==
    /\ [](\A t \in Tasks :
            (Done(t) /\ task[t].op = "writeFile" /\ ~task[t].overwrite /\ Ok(t))
               => /\ ~task[t].exists
                  /\ task[t].log[1].node.k = "absent")
    /\ [][\A t \in Tasks :
            (/\ task[t].pc = "exec" /\ task[t].cmd.kind = "write"
             /\ task[t].reply = NoReply
             /\ task'[t].reply.tag \in {"ok", "exit"}
             /\ NodeAt(SessionOf(task[t]), PathOf(task[t])).k # "dir"
             /\ Kind(fs[SessionOf(task[t])], DirName(PathOf(task[t]))) = "dir")
               => /\ task'[t].reply.tag = "ok"
                  /\ fs'[SessionOf(task[t])][PathOf(task[t])] = File(task[t].content)]_vars

\* Two writeFile calls (create:true, overwrite:false) with different contents
\* on the same path both found it absent and both succeeded; the second
\* write ran on the file the first had written, and the file holds the
\* second content.
C26_Witness ==
    \E t, u \in Tasks :
        /\ t # u
        /\ Done(t) /\ Done(u) /\ Ok(t) /\ Ok(u)
        /\ task[t].op = "writeFile" /\ task[u].op = "writeFile"
        /\ task[t].uri = task[u].uri
        /\ task[t].create /\ ~task[t].overwrite
        /\ task[u].create /\ ~task[u].overwrite
        /\ task[t].log[1].node.k = "absent" /\ task[u].log[1].node.k = "absent"
        /\ task[t].content # task[u].content
        /\ task[u].log[3].node = File(task[t].content)
        /\ NodeAt(SessionOf(task[u]), PathOf(task[u])) = File(task[u].content)

\* C27: readFile returns the bytes the file held when the content-read
\* command ran; a zero-length result means the read command ran on a file
\* that existed and was empty, and a content-read command that exits
\* non-zero makes the call fail.
C27_ReadFileNeverFabricatesEmpty ==
    \A t \in Tasks :
        (Done(t) /\ task[t].op = "readFile" /\ Ok(t))
            => \E k \in 1..Len(task[t].log) :
                  /\ task[t].log[k].kind = "base64"
                  /\ task[t].log[k].out = "ok"
                  /\ task[t].log[k].node = File(task[t].res.val)

Markers == {"/", "@", "*", "=", "|"}

Marked(line) == line # <<>> /\ line[Len(line)] \in Markers

NameOf(line) == IF Marked(line) THEN SubSeq(line, 1, Len(line) - 1) ELSE line

KindOf(line) ==
    IF ~Marked(line) THEN "File"
    ELSE IF line[Len(line)] = "/" THEN "Directory"
    ELSE IF line[Len(line)] = "@" THEN "SymbolicLink"
    ELSE "File"

Kept(line) == NameOf(line) \notin {<<>>, <<".">>, <<".", ".">>}

Expected(lines) ==
    LET sel == SelectSeq(lines, Kept)
    IN  [k \in 1..Len(sel) |-> <<NameOf(sel[k]), KindOf(sel[k])>>]

\* C28: readDirectory returns, for the lines of the (trimmed) listing in
\* their order, one entry per line whose name is not empty, '.' or '..'
\* after one trailing marker is taken off: '/' gives a directory, '@' a
\* symbolic link, '*', '=' and '|' a file, and a line without marker is a
\* file under its whole name.  'data.txt' and 'logs/' give (data.txt, File)
\* and (logs, Directory).
C28_ListingParsing ==
    [][\A t \in Tasks :
          (/\ task[t].op = "readDirectory" /\ task[t].pc = "exec"
           /\ task[t].reply.tag = "ok" /\ task'[t].pc = "done")
             => LET out == task[t].reply.stdout
                    lines == Split(Trim(out), "\n")
                IN  /\ task'[t].res = [tag |-> "ok", val |-> Expected(lines)]
                    /\ Len(task'[t].res.val) <= Len(lines)
                    /\ out = <<"data.txt", "\n", "logs", "/", "\n">>
                          => task'[t].res.val = << <<<<"data.txt">>, "File">>,
                                                   <<<<"logs">>, "Directory">> >>
                    /\ out = <<"x", "/", "@", "\n">>
                          => task'[t].res.val = << <<<<"x", "/">>, "SymbolicLink">> >>]_vars

\* A listing with a plain name, a name ending in two markers and a
\* directory has been parsed.
C28_Witness ==
    \E t \in Tasks :
        /\ Done(t) /\ task[t].op = "readDirectory" /\ Ok(t)
        /\ task[t].res.val = << <<<<"data.txt">>, "File">>,
                                <<<<"x", "/">>, "SymbolicLink">>,
                                <<<<"logs">>, "Directory">> >>

\* C29: whatever the interleaving of the startup restore and the
\* sprite.setToken runs, at most one provider instance is created, and an
\* instance that holds a registry is the one registered for the scheme.
C29_SingleAdapterInstance ==
    /\ Len(ext.insts) <= 1
    /\ \A i \in 1..Len(ext.insts) :
          ext.insts[i].client # 0 => ext.registered = i

\* C30: registerFileSystemProvider is called only while the scheme has no
\* provider, so the provider is registered at most once, and every run that
\* got a token and the SDK leaves its registry in the registered provider.
C30_ProviderRegisteredOnce ==
    [][/\ ext'.regCalls # ext.regCalls => ext.registered = 0
       /\ \A r \in Runs :
             (ext.pc[r] = "loaded" /\ ext'.pc[r] = "done")
                => /\ ext'.registered # 0
                   /\ ext'.insts[ext'.registered].client = r]_vars

====
